---- MODULE Spec2Model ----
(***************************************************************************)
(* A model of two parts of biotite:                                        *)
(*   - src/biotite/structure/hbond.py: hbond, _hbond, _is_hbond            *)
(*   - src/biopython/structure/io/pdbx/file.py: PDBxFile                   *)
(*                                                                         *)
(* Lengths are integers in units of 0.1 Angstrom, so the default           *)
(* cutoff_dist of 2.5 is 25 and the donor-hydrogen cutoff of 1.5 is 15.    *)
(* A float distance is kept exactly as the square it is the root of, an    *)
(* angle as its cosine (numerator and squared denominator).  Atom and      *)
(* model indices are 0-based as in the code; lists are sequences.          *)
(***************************************************************************)
EXTENDS Integers, Sequences, FiniteSets, TLC

VARIABLES
    atoms,       \* the AtomArray or AtomArrayStack handed to hbond
    calls,       \* the calls of hbond made on atoms: arguments and outcome
    probe,       \* donor, donor_h, acceptor coordinates handed to _is_hbond
    verdict,     \* what _is_hbond answered for probe
    lines,       \* PDBxFile._lines
    categories,  \* PDBxFile._categories
    history      \* the last call made on the PDBxFile, and the state before it

vars == <<atoms, calls, probe, verdict, lines, categories, history>>

(***************************************************************************)
(* Bounds of the model.                                                    *)
(***************************************************************************)
NumModels == 2
MaxCalls == 3

(***************************************************************************)
(* Program constants (hbond.py).                                           *)
(***************************************************************************)
cutoff_dist == 25
cutoff_angle == 120
cutoff == 15
donor_elements == {"O", "N", "S"}
acceptor_elements == {"O", "N", "S"}

(***************************************************************************)
(* Generic list helpers.                                                   *)
(***************************************************************************)
RECURSIVE Flatten(_)
Flatten(ss) ==
    IF ss = <<>> THEN <<>> ELSE Head(ss) \o Flatten(Tail(ss))

ElementOfSeq(seq, x) == \E k \in 1..Len(seq) : seq[k] = x

SelectIdx(s, keep(_)) ==
    LET F[i \in 0..Len(s)] ==
            IF i = 0 THEN <<>>
            ELSE IF keep(i) THEN Append(F[i-1], s[i]) ELSE F[i-1]
    IN F[Len(s)]

(***************************************************************************)
(* Geometry primitives (biotite.structure.geometry, not part of src/).     *)
(***************************************************************************)
Sub(p, q) == <<p[1] - q[1], p[2] - q[2], p[3] - q[3]>>
Dot(u, v) == u[1] * v[1] + u[2] * v[2] + u[3] * v[3]

\* distance(a, b): the float sqrt(sq) / 10 Angstrom, kept as sq.
distance(a, b) == [sq |-> Dot(Sub(a, b), Sub(a, b))]

\* angle(a, b, c): the angle at b, kept as its cosine num / sqrt(den2).
\* den2 = 0 is the NaN of a zero-length arm.
angle(a, b, c) ==
    LET u == Sub(a, b)
        v == Sub(c, b)
    IN [num |-> Dot(u, v), den2 |-> Dot(u, u) * Dot(v, v)]

\* np.deg2rad on the cutoffs used here, as the cosine of the angle.
deg2rad(deg) ==
    CASE deg = 90 -> [num |-> 0, den2 |-> 1]
      [] deg = 120 -> [num |-> -1, den2 |-> 4]
      [] deg = 135 -> [num |-> -1, den2 |-> 2]
      [] deg = 180 -> [num |-> -1, den2 |-> 1]

\* x < y for two cosines x = a.num/sqrt(a.den2), y = b.num/sqrt(b.den2).
CosLess(a, b) ==
    IF a.num < 0 /\ b.num >= 0 THEN TRUE
    ELSE IF a.num >= 0 /\ b.num < 0 THEN FALSE
    ELSE IF a.num >= 0
         THEN a.num * a.num * b.den2 < b.num * b.num * a.den2
         ELSE a.num * a.num * b.den2 > b.num * b.num * a.den2

\* theta > phi for two angles in [0, pi]; any comparison with NaN is false.
AngleGreater(theta, phi) ==
    theta.den2 # 0 /\ phi.den2 # 0 /\ CosLess(theta, phi)

\* dist <= c for a float distance and a length c in 0.1 Angstrom.
DistLeq(dist, c) == dist.sq <= c * c

\* A float distance stored into an int array: truncated to whole Angstrom.
IntCast(dist) ==
    CHOOSE t \in 0..100 : 100 * t * t <= dist.sq /\ dist.sq < 100 * (t + 1) * (t + 1)


(***************************************************************************)
(* The atom container (biotite.structure.atoms, not part of src/): per     *)
(* atom an element and a residue id, per model and atom a coordinate.      *)
(***************************************************************************)
array_length(a) == Cardinality(DOMAIN a.element)
stack_depth(a) == Cardinality(DOMAIN a.coord)

\* np.where(mask)[0]: the indices at which mask is true, ascending.
Where(mask) ==
    LET n == Cardinality(DOMAIN mask)
        F[i \in 0..n] ==
            IF i = 0 THEN <<>>
            ELSE IF mask[i-1] THEN Append(F[i-1], i-1) ELSE F[i-1]
    IN F[n]

\* np.full(n, value)
full(n, value) == [i \in 0..(n-1) |-> value]

(***************************************************************************)
(* _is_hbond (hbond.py 325-362) on one donor, hydrogen and acceptor        *)
(* coordinate.                                                             *)
(***************************************************************************)
\* _is_hbond with the angle compared by >= in place of >
IsHbondAngleGeq(donor, donor_h, acceptor) ==
    /\ ~AngleGreater(deg2rad(cutoff_angle), angle(donor, donor_h, acceptor))
    /\ angle(donor, donor_h, acceptor).den2 # 0
    /\ DistLeq(distance(donor_h, acceptor), cutoff_dist)

\* lines 358-362
_is_hbond(donor, donor_h, acceptor) ==
    LET cutoff_angle_rad == deg2rad(cutoff_angle)
        theta == angle(donor, donor_h, acceptor)
        dist == distance(donor_h, acceptor)
    IN  AngleGreater(theta, cutoff_angle_rad) /\ DistLeq(dist, cutoff_dist)

(***************************************************************************)
(* _get_bonded_hydrogen (hbond.py 204-228) on the first model: for every   *)
(* donor of donor_mask, ascending, the indices of its hydrogens.           *)
(***************************************************************************)
\* the hydrogens of one donor: one pass of the loop, lines 216-226
donor_h_indices(a, donor) ==
    LET n == array_length(a)
        candidate_mask ==
            [i \in 0..(n-1) |->
                a.element[i] = "H" /\ a.res_id[i] = a.res_id[donor]]
        \* distances is an int array: the float distances are truncated
        \* when they are stored into it
        distances ==
            [i \in 0..(n-1) |->
                IF candidate_mask[i]
                THEN IntCast(distance(a.coord[0][donor], a.coord[0][i]))
                ELSE -1]
    IN Where([i \in 0..(n-1) |->
                /\ candidate_mask[i]
                /\ 10 * distances[i] <= cutoff
                /\ distances[i] >= 0])

_get_bonded_hydrogen(a, donors) ==
    [k \in 1..Len(donors) |-> donor_h_indices(a, donors[k])]

(***************************************************************************)
(* _get_triplets (hbond.py 235-255).  The result is a record: error is ""  *)
(* or the name of the exception raised.                                    *)
(***************************************************************************)
\* np.repeat(rows, k, axis=0): every row k times, in place
repeat(rows, k) ==
    Flatten([i \in 1..Len(rows) |-> [j \in 1..k |-> rows[i]]])

\* np.tile(rows, (k, 1)): the whole list k times
tile(rows, k) ==
    Flatten([j \in 1..k |-> rows])

\* lines 237-241: the (donor, hydrogen) rows
doublets_of(donor_i, donor_hs_i) ==
    Flatten([k \in 1..Len(donor_i) |->
        [j \in 1..Len(donor_hs_i[k]) |-> <<donor_i[k], donor_hs_i[k][j]>>]])

\* hstack with the acceptor column stacked twice
HstackDoubled(rep, tiled) ==
    [i \in 1..Len(rep) |-> rep[i] \o <<tiled[i], tiled[i]>>]

\* line 253: np.hstack
hstack(rep, tiled) == [i \in 1..Len(rep) |-> rep[i] \o <<tiled[i]>>]

\* line 254: drop the rows whose donor is their acceptor
drop_self(triplets) ==
    SelectIdx(triplets, LAMBDA i : triplets[i][1] # triplets[i][3])

\* lines 246-251; int(doublets.shape[0] / acceptor_i.shape[0]) divides by
\* zero when there is no acceptor
cross(rep, acceptor_i) ==
    IF Len(acceptor_i) = 0
    THEN [error |-> "ZeroDivisionError", triplets |-> <<>>]
    ELSE [error |-> "",
          triplets |-> drop_self(hstack(rep, tile(acceptor_i,
                                        Len(rep) \div Len(acceptor_i))))]

\* lines 243-255, given the doublets
triplets_of(doublets, acceptor_i) ==
    IF Len(doublets) = 0 THEN [error |-> "", triplets |-> <<>>]
    ELSE cross(repeat(doublets, Len(acceptor_i)), acceptor_i)

_get_triplets(donor_i, donor_hs_i, acceptor_i) ==
    triplets_of(doublets_of(donor_i, donor_hs_i), acceptor_i)

(***************************************************************************)
(* _hbond (hbond.py 187-285): one directional search.  uninit is what the  *)
(* np.empty((len(atoms), 3)) of line 261 happens to hold.  mask[m] is row  *)
(* m of the boolean matrix, a list with one entry per column.              *)
(***************************************************************************)
\* lines 265-269: hbond_mask of the vectorized branch, one batched _is_hbond
VectorizedMask(a, triplets) ==
    [m \in 0..(stack_depth(a) - 1) |->
        [t \in 1..Len(triplets) |->
            _is_hbond(a.coord[m][triplets[t][1]],
                      a.coord[m][triplets[t][2]],
                      a.coord[m][triplets[t][3]])]]

\* lines 271-278: all False, then filled frame by frame
FrameMask(a, triplets) ==
    LET M == stack_depth(a)
        F[k \in 0..M] ==
            IF k = 0
            THEN [m \in 0..(M-1) |-> [t \in 1..Len(triplets) |-> FALSE]]
            ELSE [F[k-1] EXCEPT ![k-1] =
                    [t \in 1..Len(triplets) |->
                        _is_hbond(a.coord[k-1][triplets[t][1]],
                                  a.coord[k-1][triplets[t][2]],
                                  a.coord[k-1][triplets[t][3]])]]
    IN F[M]

\* prune without line 283: the columns of the mask are all kept
PruneTripletsOnly(triplets, hbond_mask) ==
    [error |-> "",
     triplets |-> SelectIdx(triplets,
                            LAMBDA t : \E m \in DOMAIN hbond_mask : hbond_mask[m][t]),
     mask |-> hbond_mask]

\* lines 280-285: keep the triplets counted at least once
prune(triplets, hbond_mask) ==
    [error |-> "",
     triplets |-> SelectIdx(triplets,
                            LAMBDA t : \E m \in DOMAIN hbond_mask : hbond_mask[m][t]),
     mask |-> [m \in DOMAIN hbond_mask |->
                  SelectIdx(hbond_mask[m],
                            LAMBDA t : \E k \in DOMAIN hbond_mask : hbond_mask[k][t])]]

\* lines 259-285, given the candidate triplets
filter_triplets(a, got, vectorized, uninit) ==
    IF got.error # ""
    THEN [error |-> got.error, triplets |-> <<>>, mask |-> uninit]
    ELSE IF Len(got.triplets) = 0
    THEN [error |-> "", triplets |-> got.triplets, mask |-> uninit]
    ELSE prune(got.triplets,
               IF vectorized THEN VectorizedMask(a, got.triplets)
               ELSE FrameMask(a, got.triplets))

\* lines 231-257, given the element-filtered selections
candidates(a, donor_i, acceptor_i) ==
    _get_triplets(donor_i, _get_bonded_hydrogen(a, donor_i), acceptor_i)

_hbond(a, donor_selection, acceptor_selection, vectorized, uninit) ==
    filter_triplets(a,
        candidates(a,
            Where([i \in DOMAIN a.element |->
                    donor_selection[i] /\ a.element[i] \in donor_elements]),
            Where([i \in DOMAIN a.element |->
                    acceptor_selection[i] /\ a.element[i] \in acceptor_elements])),
        vectorized, uninit)

(***************************************************************************)
(* np.unique(triplets, axis=0, return_index=True): the distinct rows in    *)
(* ascending lexicographic order and, for each, the index of its first     *)
(* occurrence.                                                             *)
(***************************************************************************)
RowLess(r, q) ==
    \/ r[1] < q[1]
    \/ r[1] = q[1] /\ r[2] < q[2]
    \/ r[1] = q[1] /\ r[2] = q[2] /\ r[3] < q[3]

RECURSIVE SortRows(_)
SortRows(S) ==
    IF S = {} THEN <<>>
    ELSE LET least == CHOOSE r \in S : \A q \in S \ {r} : RowLess(r, q)
         IN <<least>> \o SortRows(S \ {least})

first_index(rows, r) ==
    CHOOSE i \in 1..Len(rows) : rows[i] = r /\ \A j \in 1..(i-1) : rows[j] # r

index_of(rows, sorted) ==
    [rows |-> sorted, index |-> [k \in 1..Len(sorted) |-> first_index(rows, sorted[k])]]

unique(rows) ==
    index_of(rows, SortRows({rows[i] : i \in 1..Len(rows)}))

(***************************************************************************)
(* hbond (hbond.py 17-184).  A selection argument is <<>> for None and     *)
(* <<mask>> for a boolean mask.  The outcome holds error ("" when hbond    *)
(* returns), the returned triplets, the returned mask as <<mask>> (<<>>    *)
(* when the input is a single model and no mask is returned), and the      *)
(* results of the directional searches that ran.                           *)
(***************************************************************************)
\* selection2_type with selection2 given the type of selection1
Selection2TypeSame(selection1_type) ==
    IF selection1_type \in {"both", "acceptor", "donor"}
    THEN selection1_type ELSE "ValueError"

\* lines 120-128
selection2_type(selection1_type) ==
    CASE selection1_type = "both" -> "both"
      [] selection1_type = "acceptor" -> "donor"
      [] selection1_type = "donor" -> "acceptor"
      [] OTHER -> "ValueError"

\* lines 131-144
build_donor_acceptor_selections(a, selection, selection_type) ==
    [donor |-> IF selection_type \in {"both", "donor"}
               THEN (IF selection = <<>> THEN full(array_length(a), TRUE)
                     ELSE selection[1])
               ELSE full(array_length(a), FALSE),
     acceptor |-> IF selection_type \in {"both", "acceptor"}
                  THEN (IF selection = <<>> THEN full(array_length(a), TRUE)
                        ELSE selection[1])
                  ELSE full(array_length(a), FALSE)]

Failed(err) ==
    [error |-> err, triplets |-> <<>>, mask |-> <<>>, passes |-> <<>>]

\* lines 178-184
Return(a, triplets, mask, passes) ==
    [error |-> "", triplets |-> triplets,
     mask |-> IF a.stack THEN <<mask>> ELSE <<>>,
     passes |-> passes]

\* line 176: mask[:, unique_indices]
take_columns(mask, index) ==
    [m \in DOMAIN mask |-> [k \in 1..Len(index) |-> mask[m][index[k]]]]

\* merge_unique without the np.unique of line 173
MergeNoUnique(a, triplets, mask, u, passes) ==
    Return(a, triplets, mask, passes)

\* lines 169-176
merge_unique(a, triplets, mask, u, passes) ==
    IF Len(triplets) > 0
    THEN Return(a, u.rows, take_columns(mask, u.index), passes)
    ELSE Return(a, triplets, mask, passes)

\* lines 167-168
merge(a, run1, run2) ==
    IF run2.error # "" THEN Failed(run2.error)
    ELSE merge_unique(a, run1.triplets \o run2.triplets,
                      [m \in DOMAIN run1.mask |-> run1.mask[m] \o run2.mask[m]],
                      unique(run1.triplets \o run2.triplets),
                      <<run1, run2>>)

\* second_run with the test of line 160 always finding the selections equal
SecondRunNever(a, s1, s2, run1, vectorized, uninit2) ==
    IF run1.error # "" THEN Failed(run1.error)
    ELSE Return(a, run1.triplets, run1.mask, <<run1>>)

\* lines 159-166
second_run(a, s1, s2, run1, vectorized, uninit2) ==
    IF run1.error # "" THEN Failed(run1.error)
    ELSE IF s1.donor = s2.donor /\ s1.acceptor = s2.acceptor
    THEN Return(a, run1.triplets, run1.mask, <<run1>>)
    ELSE merge(a, run1, _hbond(a, s2.donor, s1.acceptor, vectorized, uninit2))

\* lines 152-157
first_run(a, s1, s2, vectorized, uninit1, uninit2) ==
    second_run(a, s1, s2,
               _hbond(a, s1.donor, s2.acceptor, vectorized, uninit1),
               vectorized, uninit2)

\* hbond without the raise of line 128: the search runs on empty selections
HbondUnchecked(a, selection1, selection2, selection1_type, vectorized, uninit1, uninit2) ==
    first_run(a,
        build_donor_acceptor_selections(a, selection1, selection1_type),
        build_donor_acceptor_selections(a, selection2,
                                        selection2_type(selection1_type)),
        vectorized, uninit1, uninit2)

hbond(a, selection1, selection2, selection1_type, vectorized, uninit1, uninit2) ==
    IF selection2_type(selection1_type) = "ValueError" THEN Failed("ValueError")
    ELSE first_run(a,
            build_donor_acceptor_selections(a, selection1, selection1_type),
            build_donor_acceptor_selections(a, selection2,
                                            selection2_type(selection1_type)),
            vectorized, uninit1, uninit2)

(***************************************************************************)
(* The inputs explored.  Three small molecules of five atoms each, with    *)
(* the conformations (frames) each may take; coordinates in 0.1 Angstrom.  *)
(*   SystemA: N0-H1 and O2-H3 in two residues and a further O4.            *)
(*            FrameA1 holds the bonds 0-1..2, 0-1..4 and 2-3..0; FrameA2   *)
(*            holds none; in FrameA3 H1 is 1.8 Angstrom from N0.           *)
(*   SystemB: N0 with two hydrogens H1 and H2, O3 without hydrogen, C4.    *)
(*   SystemC: the only hydrogen near N0 belongs to another residue.        *)
(***************************************************************************)
ZeroBased(s) == [i \in 0..(Len(s) - 1) |-> s[i + 1]]

SystemA ==
    [element |-> <<"N", "H", "O", "H", "O">>,
     res_id |-> <<1, 1, 2, 2, 2>>,
     frames |-> {<<<<0, 0, 0>>, <<10, 0, 0>>, <<30, 0, 0>>, <<21, 4, 0>>, <<20, -15, 0>>>>,
                 <<<<0, 0, 0>>, <<10, 0, 0>>, <<36, 0, 0>>, <<45, 0, 0>>, <<10, 20, 0>>>>,
                 <<<<0, 0, 0>>, <<18, 0, 0>>, <<30, 0, 0>>, <<21, 4, 0>>, <<10, 20, 0>>>>}]

SystemB ==
    [element |-> <<"N", "H", "H", "O", "C">>,
     res_id |-> <<1, 1, 1, 2, 2>>,
     frames |-> {<<<<0, 0, 0>>, <<10, 0, 0>>, <<-3, 9, 0>>, <<30, 0, 0>>, <<50, 50, 0>>>>,
                 <<<<0, 0, 0>>, <<10, 0, 0>>, <<-3, 9, 0>>, <<-10, 30, 0>>, <<50, 50, 0>>>>}]

SystemC ==
    [element |-> <<"N", "H", "O", "H", "C">>,
     res_id |-> <<1, 2, 2, 1, 1>>,
     frames |-> {<<<<0, 0, 0>>, <<10, 0, 0>>, <<30, 0, 0>>, <<90, 0, 0>>, <<0, 50, 0>>>>}]

Systems == {SystemA, SystemB, SystemC}

\* An AtomArrayStack of NumModels models, or a single AtomArray.
Ensembles ==
    UNION {
        {[stack |-> TRUE,
          element |-> ZeroBased(sys.element),
          res_id |-> ZeroBased(sys.res_id),
          coord |-> [m \in 0..(NumModels - 1) |-> ZeroBased(fr[m])]]
            : fr \in [0..(NumModels - 1) -> sys.frames]}
        \cup
        {[stack |-> FALSE,
          element |-> ZeroBased(sys.element),
          res_id |-> ZeroBased(sys.res_id),
          coord |-> [m \in {0} |-> ZeroBased(f)]]
            : f \in sys.frames}
        : sys \in Systems}

MaskOf(S) == [i \in 0..4 |-> i \in S]

\* selection1 and selection2: None, or a mask
Selections ==
    {<<>>} \cup
    {<<MaskOf(S)>> : S \in {{}, {0, 1}, {0, 2}, {0, 1, 2}, {2, 3, 4}, {3, 4},
                            {0, 1, 2, 3, 4}}}

SelectionTypes == {"both", "donor", "acceptor", "any"}

\* What uninitialised memory may hold: here all zero bytes or all nonzero.
Uninit(a) ==
    {[m \in 0..(stack_depth(a) - 1) |-> <<b, b, b>>] : b \in BOOLEAN}

(***************************************************************************)
(* Specification Spec: hbond called on an ensemble, then called once more  *)
(* with the roles of the selections exchanged or with the other value of   *)
(* vectorized.                                                             *)
(***************************************************************************)
CallRecord(a, selection1, selection2, selection1_type, vectorized, u1, u2) ==
    [selection1 |-> selection1, selection2 |-> selection2,
     selection1_type |-> selection1_type, vectorized |-> vectorized,
     out |-> hbond(a, selection1, selection2, selection1_type, vectorized, u1, u2)]

NoFile == <<>>
NoProbe == <<>>

Init ==
    /\ atoms \in Ensembles
    /\ calls = <<>>
    /\ probe = NoProbe
    /\ verdict = <<>>
    /\ lines = NoFile
    /\ categories = NoFile
    /\ history = <<>>

Call ==
    /\ calls = <<>>
    /\ \E selection1 \in Selections, selection2 \in Selections,
          selection1_type \in SelectionTypes, vectorized \in BOOLEAN,
          u1 \in Uninit(atoms), u2 \in Uninit(atoms) :
            calls' = <<CallRecord(atoms, selection1, selection2,
                                  selection1_type, vectorized, u1, u2)>>
    /\ UNCHANGED <<atoms, probe, verdict, lines, categories, history>>

\* hbond(B, A, 'acceptor') after hbond(A, B, 'donor')
CallExchanged ==
    /\ Len(calls) = 1
    /\ calls[1].selection1_type = "donor"
    /\ \E u1 \in Uninit(atoms), u2 \in Uninit(atoms) :
            calls' = Append(calls,
                CallRecord(atoms, calls[1].selection2, calls[1].selection1,
                           "acceptor", calls[1].vectorized, u1, u2))
    /\ UNCHANGED <<atoms, probe, verdict, lines, categories, history>>

\* the same call with the other value of vectorized
CallOtherBranch ==
    /\ Len(calls) = 1
    /\ \E u1 \in Uninit(atoms), u2 \in Uninit(atoms) :
            calls' = Append(calls,
                CallRecord(atoms, calls[1].selection1, calls[1].selection2,
                           calls[1].selection1_type, ~calls[1].vectorized, u1, u2))
    /\ UNCHANGED <<atoms, probe, verdict, lines, categories, history>>

Next == Call \/ CallExchanged \/ CallOtherBranch

Spec == Init /\ [][Next]_vars


(***************************************************************************)
(* Specification SpecCriterion: _is_hbond applied to one donor, hydrogen   *)
(* and acceptor position.  The positions lie on a grid of 1 Angstrom, with *)
(* three more at 2.5 and 2.6 Angstrom from the origin; the hydrogen        *)
(* coincides with neither of the other two.                                *)
(***************************************************************************)
Points ==
    {<<x, y, z>> : x \in {-10, 0, 10}, y \in {-10, 0, 10}, z \in {-10, 0}}
    \cup {<<25, 0, 0>>, <<-15, 20, 0>>, <<26, 0, 0>>}

InitCriterion ==
    /\ probe \in {p \in [donor : Points, donor_h : Points, acceptor : Points] :
                    p.donor_h # p.donor /\ p.donor_h # p.acceptor}
    /\ verdict = <<>>
    /\ atoms = <<>>
    /\ calls = <<>>
    /\ lines = NoFile
    /\ categories = NoFile
    /\ history = <<>>

Judge ==
    /\ verdict = <<>>
    /\ verdict' = <<_is_hbond(probe.donor, probe.donor_h, probe.acceptor)>>
    /\ UNCHANGED <<atoms, calls, probe, lines, categories, history>>

NextCriterion == Judge

SpecCriterion == InitCriterion /\ [][NextCriterion]_vars

(***************************************************************************)
(* hbond_frequency (hbond.py 288-322) on a mask of M rows (models) and T   *)
(* columns (triplets).  A frequency is the quotient num / den of the true  *)
(* division, kept as the pair of its operands.  history holds the mask the *)
(* caller passed.                                                          *)
(***************************************************************************)
MaxMaskModels == 3
MaxMaskTriplets == 3

\* mask.sum(axis=0): True counts 1
RECURSIVE column_sum(_, _)
column_sum(mask, t) ==
    IF mask = <<>> THEN 0
    ELSE (IF Head(mask)[t] THEN 1 ELSE 0) + column_sum(Tail(mask), t)

\* the quotient with the number of columns as divisor
FrequencyOverColumns(mask) ==
    [t \in 1..Len(mask[1]) |-> [num |-> column_sum(mask, t), den |-> Len(mask[1])]]

\* line 322
hbond_frequency(mask) ==
    [t \in 1..Len(mask[1]) |-> [num |-> column_sum(mask, t), den |-> Len(mask)]]

Masks ==
    UNION {[1..M -> [1..T -> BOOLEAN]] : M \in 1..MaxMaskModels, T \in 0..MaxMaskTriplets}

InitFrequency ==
    /\ probe \in Masks
    /\ history = <<probe>>
    /\ verdict = <<>>
    /\ atoms = <<>>
    /\ calls = <<>>
    /\ lines = NoFile
    /\ categories = NoFile

\* the call builds new arrays: the argument is as it was
Frequency ==
    /\ verdict = <<>>
    /\ verdict' = <<hbond_frequency(probe)>>
    /\ probe' = probe
    /\ UNCHANGED <<atoms, calls, lines, categories, history>>

NextFrequency == Frequency

SpecFrequency == InitFrequency /\ [][NextFrequency]_vars

(***************************************************************************)
(* PDBxFile (pdbx/file.py).  A line is a string.  _categories, a dict in   *)
(* insertion order, is a sequence of entries: the key (block, category)    *)
(* and the stored start, stop, loop and multiline.  Line numbers are       *)
(* 0-based as in the code: line i of the file is lines[i + 1].  None is    *)
(* <<>> and a value v is <<v>> where the code tells them apart.            *)
(***************************************************************************)
StartsWith(str, prefix) ==
    Len(str) >= Len(prefix) /\ SubSeq(str, 1, Len(prefix)) = prefix

\* str.find(ch): the 0-based position of the first ch, or -1
Find(str, ch) ==
    IF \E i \in 1..Len(str) : SubSeq(str, i, i) = ch
    THEN (CHOOSE i \in 1..Len(str) :
            /\ SubSeq(str, i, i) = ch
            /\ \A j \in 1..(i-1) : SubSeq(str, j, j) # ch) - 1
    ELSE -1

\* str[lo:hi] for 0 <= lo and any hi (a negative hi counts from the end)
Slice(str, lo, hi) ==
    SubSeq(str, lo + 1, IF hi < 0 THEN Len(str) + hi ELSE hi)

\* lines 321-322
_is_empty(line) == Len(line) = 0 \/ SubSeq(line, 1, 1) = "#"

\* lines 325-329
_data_block_name(line) ==
    IF StartsWith(line, "data_") THEN <<SubSeq(line, 6, Len(line))>> ELSE <<>>

\* lines 331-332
_is_loop_start(line) == StartsWith(line, "loop_")

\* lines 335-339
_is_multi(line, is_loop) ==
    IF is_loop THEN SubSeq(line, 1, 1) = ";"
    ELSE SubSeq(line, 1, 1) \in {";", "'", "\""}

\* lines 342-346
_get_category_name(line) ==
    IF SubSeq(line, 1, 1) # "_" THEN <<>>
    ELSE <<Slice(line, 1, Find(line, "."))>>

HasKey(cats, block, category) ==
    \E k \in 1..Len(cats) : cats[k].block = block /\ cats[k].category = category

KeyIndex(cats, block, category) ==
    CHOOSE k \in 1..Len(cats) : cats[k].block = block /\ cats[k].category = category

\* the assignment of a dict item: in place when the key exists
PutEntry(cats, entry) ==
    IF HasKey(cats, entry.block, entry.category)
    THEN [cats EXCEPT ![KeyIndex(cats, entry.block, entry.category)] = entry]
    ELSE Append(cats, entry)

\* lines 266-276
_add_category(cats, block, category_name, start, stop, is_loop, is_multilined) ==
    IF category_name # <<>>
    THEN PutEntry(cats, [block |-> block, category |-> category_name[1],
                         start |-> start, stop |-> stop,
                         loop |-> is_loop, multiline |-> is_multilined])
    ELSE cats

\* lines 78-84
get_block_names(cats) ==
    SelectIdx([k \in 1..Len(cats) |-> cats[k].block],
              LAMBDA k : \A j \in 1..(k-1) : cats[j].block # cats[k].block)

(***************************************************************************)
(* read (file.py 20-75), on the lines of the file.  The scan keeps         *)
(* data_block (<<>> while unbound), current_category, start, is_loop and   *)
(* has_multiline_values, and the index built so far.                       *)
(***************************************************************************)
\* lines 37-45: a new data block resets the category data
reset_on_block(st, line) ==
    IF _data_block_name(line) # <<>>
    THEN [st EXCEPT !.data_block = _data_block_name(line),
                    !.current_category = <<>>,
                    !.start = -1,
                    !.is_loop = FALSE,
                    !.has_multiline_values = FALSE]
    ELSE st

\* lines 47-64: the start of a new category closes the one before
track_category(st, i, line, next_line) ==
    IF _is_loop_start(line)
       \/ (_get_category_name(line) # st.current_category
           /\ _get_category_name(line) # <<>>)
    THEN [st EXCEPT
            !.cats = _add_category(st.cats, st.data_block[1], st.current_category,
                                   st.start, i, st.is_loop, st.has_multiline_values),
            !.is_loop = _is_loop_start(line),
            !.current_category =
                IF _is_loop_start(line) THEN _get_category_name(next_line)
                ELSE _get_category_name(line),
            !.start = i,
            !.has_multiline_values = FALSE]
    ELSE st

\* lines 66-68
note_multiline(st, line) ==
    IF _is_multi(line, st.is_loop)
    THEN [st EXCEPT !.has_multiline_values = TRUE]
    ELSE st

\* one pass of the loop of line 34, on line i
read_line(st, i, file) ==
    IF _is_empty(file[i + 1]) THEN st
    ELSE note_multiline(
            track_category(reset_on_block(st, file[i + 1]), i, file[i + 1],
                           IF i + 2 <= Len(file) THEN file[i + 2] ELSE ""),
            file[i + 1])

scan(cats, file) ==
    LET F[i \in 0..Len(file)] ==
            IF i = 0
            THEN [data_block |-> <<>>, current_category |-> <<>>, start |-> -1,
                  is_loop |-> FALSE, has_multiline_values |-> FALSE, cats |-> cats]
            ELSE read_line(F[i-1], i - 1, file)
    IN F[Len(file)]

\* lines 73-75: the entry of the final category
close_final(st, file) ==
    _add_category(st.cats, st.data_block[1], st.current_category, st.start,
                  Len(file), st.is_loop, st.has_multiline_values)

read(cats, file) == close_final(scan(cats, file), file)

(***************************************************************************)
(* get_category (file.py 87-136) and what it calls.  A result is a record: *)
(* error is "" or the name of the exception raised, dict the mapping in    *)
(* the form set_category takes it.                                         *)
(***************************************************************************)
\* "".join(strs)
RECURSIVE Join(_)
Join(strs) == IF strs = <<>> THEN "" ELSE Head(strs) \o Join(Tail(strs))

Whitespace == {" ", "\t"}

Quotes == {"'", "\""}

\* str.strip()
RECURSIVE LStrip(_)
LStrip(str) ==
    IF Len(str) > 0 /\ SubSeq(str, 1, 1) \in Whitespace
    THEN LStrip(SubSeq(str, 2, Len(str))) ELSE str

RECURSIVE RStrip(_)
RStrip(str) ==
    IF Len(str) > 0 /\ SubSeq(str, Len(str), Len(str)) \in Whitespace
    THEN RStrip(SubSeq(str, 1, Len(str) - 1)) ELSE str

Strip(str) == RStrip(LStrip(str))

\* shlex.split: the POSIX tokenizer splitting on whitespace only.  One
\* character c read in state st.state (" " between tokens, "a" in a token, a
\* quote inside that quote, "\\" after a backslash that was met in st.esc).
ShlexEmit(st) ==
    IF st.token # "" \/ st.quoted
    THEN [st EXCEPT !.tokens = Append(@, st.token), !.token = "",
                    !.quoted = FALSE, !.state = " "]
    ELSE [st EXCEPT !.state = " "]

ShlexStep(st, c) ==
    CASE st.state = " " ->
            IF c \in Whitespace THEN st
            ELSE IF c = "\\" THEN [st EXCEPT !.esc = "a", !.state = "\\"]
            ELSE IF c \in Quotes THEN [st EXCEPT !.state = c]
            ELSE [st EXCEPT !.token = c, !.state = "a"]
      [] st.state \in Quotes ->
            IF c = st.state THEN [st EXCEPT !.state = "a", !.quoted = TRUE]
            ELSE IF c = "\\" /\ st.state = "\""
            THEN [st EXCEPT !.esc = st.state, !.state = "\\", !.quoted = TRUE]
            ELSE [st EXCEPT !.token = @ \o c, !.quoted = TRUE]
      [] st.state = "\\" ->
            [st EXCEPT !.token =
                        (IF st.esc \in Quotes /\ c # "\\" /\ c # st.esc
                         THEN @ \o "\\" ELSE @) \o c,
                       !.state = st.esc]
      [] OTHER ->
            IF c \in Whitespace THEN ShlexEmit(st)
            ELSE IF c \in Quotes THEN [st EXCEPT !.state = c]
            ELSE IF c = "\\" THEN [st EXCEPT !.esc = "a", !.state = "\\"]
            ELSE [st EXCEPT !.token = @ \o c]

\* the end of the string: an open quote or a lone backslash is an error
ShlexEnd(st) ==
    IF st.state \in Quotes \/ st.state = "\\"
    THEN [error |-> "ValueError", tokens |-> <<>>]
    ELSE [error |-> "", tokens |-> ShlexEmit(st).tokens]

shlex_split(str) ==
    LET F[i \in 0..Len(str)] ==
            IF i = 0
            THEN [state |-> " ", esc |-> " ", token |-> "", quoted |-> FALSE,
                  tokens |-> <<>>]
            ELSE ShlexStep(F[i-1], SubSeq(str, i, i))
    IN ShlexEnd(F[Len(str)])

\* lst[lo:hi] of a list, for 0 <= lo: bounds beyond the end count as the end
ListSlice(lst, lo, hi) ==
    SubSeq(lst, (IF lo > Len(lst) THEN Len(lst) ELSE lo) + 1,
                IF hi > Len(lst) THEN Len(lst) ELSE hi)

\* what follows the first "." of str, and what precedes it
AfterDot(str) == SubSeq(str, Find(str, ".") + 2, Len(str))

UpToDot(str) ==
    IF Find(str, ".") < 0 THEN str ELSE SubSeq(str, 1, Find(str, "."))

\* str.split(".")[1]: what stands between the first and the second "."
SecondPart(str) ==
    IF Find(str, ".") < 0 THEN [error |-> "IndexError", part |-> ""]
    ELSE [error |-> "", part |-> UpToDot(AfterDot(str))]

NoDict == [looped |-> FALSE, keys |-> <<>>, values |-> <<>>]

Raised(err) == [error |-> err, dict |-> NoDict]

PositionIn(seq, x) == CHOOSE k \in 1..Len(seq) : seq[k] = x

\* category_dict[key] = value: in place when the key exists
DictPut(d, key, value) ==
    IF ElementOfSeq(d.keys, key)
    THEN [d EXCEPT !.values[PositionIn(d.keys, key)] = value]
    ELSE [d EXCEPT !.keys = Append(@, key), !.values = Append(@, value)]

\* lines 280-285: one line of a single-valued category
SingleLine(d, parts) ==
    IF parts.error # "" THEN Raised(parts.error)
    ELSE IF Len(parts.tokens) = 0 THEN Raised("IndexError")
    ELSE IF SecondPart(parts.tokens[1]).error # "" THEN Raised("IndexError")
    ELSE IF Len(parts.tokens) < 2 THEN Raised("IndexError")
    ELSE [error |-> "",
          dict |-> DictPut(d, SecondPart(parts.tokens[1]).part, parts.tokens[2])]

\* lines 279-286
_process_singlevalued(content) ==
    LET F[n \in 0..Len(content)] ==
            IF n = 0 THEN [error |-> "", dict |-> NoDict]
            ELSE IF F[n-1].error # "" THEN F[n-1]
            ELSE SingleLine(F[n-1].dict, shlex_split(content[n]))
    IN F[Len(content)]

\* an entry of np.zeros(n, dtype=object) that was never assigned: the int 0
Unset == "<0>"

\* lines 297-304: a key line.  A key met again gets a new array.
LoopedKey(st, key, size) ==
    IF key.error # "" THEN [st EXCEPT !.error = key.error]
    ELSE [st EXCEPT !.keys = Append(@, key.part),
                    !.dict = DictPut(@, key.part, [n \in 1..size |-> Unset])]

\* lines 307-313: one value, stored at row st.i of the array of key st.j
LoopedValue(st, value, size) ==
    IF st.error # "" THEN st
    ELSE IF st.j + 1 > Len(st.keys) \/ st.i + 1 > size
    THEN [st EXCEPT !.error = "IndexError"]
    ELSE [st EXCEPT
            !.dict.values[PositionIn(st.dict.keys, st.keys[st.j + 1])][st.i + 1]
                = value,
            !.j = IF st.j + 1 = Len(st.keys) THEN 0 ELSE st.j + 1,
            !.i = IF st.j + 1 = Len(st.keys) THEN st.i + 1 ELSE st.i]

\* lines 306-313: the values of one line
LoopedValues(st, parts, size) ==
    IF parts.error # "" THEN [st EXCEPT !.error = parts.error]
    ELSE LET F[n \in 0..Len(parts.tokens)] ==
                IF n = 0 THEN st ELSE LoopedValue(F[n-1], parts.tokens[n], size)
         IN F[Len(parts.tokens)]

\* lines 296-313: one line of a looped category
LoopedLine(st, line, size) ==
    IF st.error # "" THEN st
    ELSE IF Len(line) = 0 THEN [st EXCEPT !.error = "IndexError"]
    ELSE IF SubSeq(line, 1, 1) = "_" THEN LoopedKey(st, SecondPart(line), size)
    ELSE LoopedValues(st, shlex_split(line), size)

\* lines 314-317: the arrays trimmed to the rows that were filled
Trimmed(st) ==
    IF st.error # "" THEN Raised(st.error)
    ELSE [error |-> "",
          dict |-> [st.dict EXCEPT !.values =
                        [c \in 1..Len(st.dict.values) |->
                            SubSeq(st.dict.values[c], 1, st.i)]]]

\* lines 289-318
_process_looped(content) ==
    LET F[n \in 0..Len(content)] ==
            IF n = 0
            THEN [error |-> "", keys |-> <<>>, i |-> 0, j |-> 0,
                  dict |-> [looped |-> TRUE, keys |-> <<>>, values |-> <<>>]]
            ELSE LoopedLine(F[n-1], content[n], Len(content))
    IN Trimmed(F[Len(content)])

\* lines 97-99 and 128-129: the lines of the range that are neither empty
\* nor a comment nor a loop marker, stripped
pre_lines_of(content) ==
    LET kept == SelectIdx(content, LAMBDA n : ~_is_empty(content[n])
                                             /\ ~_is_loop_start(content[n]))
    IN [n \in 1..Len(kept) |-> Strip(kept[n])]

\* lines 106-112: the text lines up to the closing ";" joined to the value
\* opened at pre[i]
ClosingLine(pre, i) ==
    IF \E j \in (i+1)..Len(pre) : pre[j] = ";"
    THEN CHOOSE j \in (i+1)..Len(pre) :
            pre[j] = ";" /\ \A m \in (i+1)..(j-1) : pre[m] # ";"
    ELSE 0

\* lines 104-124: the loop over pre_lines from position i (1-based), merged
\* the lines collected so far
RECURSIVE MergeMultiline(_, _, _, _)
MergeMultiline(pre, i, merged, is_loop) ==
    IF i > Len(pre) THEN [error |-> "", lines |-> merged]
    ELSE IF Len(pre[i]) = 0 THEN [error |-> "IndexError", lines |-> <<>>]
    ELSE IF SubSeq(pre[i], 1, 1) = ";"
    THEN IF Len(merged) = 0 THEN [error |-> "TypeError", lines |-> <<>>]
         ELSE IF ClosingLine(pre, i) = 0 THEN [error |-> "IndexError", lines |-> <<>>]
         ELSE MergeMultiline(pre, ClosingLine(pre, i) + 1,
                [merged EXCEPT ![Len(merged)] =
                    @ \o " '" \o SubSeq(pre[i], 2, Len(pre[i]))
                      \o Join(SubSeq(pre, i + 1, ClosingLine(pre, i) - 1))
                      \o "'"],
                is_loop)
    ELSE IF ~is_loop /\ SubSeq(pre[i], 1, 1) \in Quotes
    THEN IF Len(merged) = 0 THEN [error |-> "TypeError", lines |-> <<>>]
         ELSE MergeMultiline(pre, i + 1,
                [merged EXCEPT ![Len(merged)] = @ \o " " \o pre[i]], is_loop)
    ELSE MergeMultiline(pre, i + 1, Append(merged, pre[i]), is_loop)

\* lines 96-129
content_lines(pre, is_loop, is_multilined) ==
    IF is_multilined THEN MergeMultiline(pre, 1, <<>>, is_loop)
    ELSE [error |-> "", lines |-> pre]

\* lines 131-136
process(content, is_loop) ==
    IF content.error # "" THEN Raised(content.error)
    ELSE IF is_loop THEN _process_looped(content.lines)
    ELSE _process_singlevalued(content.lines)

\* lines 90-136, given the entry of the index
materialize(file, info) ==
    process(content_lines(pre_lines_of(ListSlice(file, info.start, info.stop)),
                          info.loop, info.multiline),
            info.loop)

\* lines 87-136; block is <<>> for None
get_category(file, cats, category, block) ==
    IF block = <<>> /\ Len(cats) = 0 THEN Raised("IndexError")
    ELSE IF ~HasKey(cats, IF block = <<>> THEN get_block_names(cats)[1] ELSE block[1],
                    category)
    THEN Raised("KeyError")
    ELSE materialize(file,
            cats[KeyIndex(cats, IF block = <<>> THEN get_block_names(cats)[1]
                                ELSE block[1], category)])

(***************************************************************************)
(* set_category (file.py 139-251).  category_dict is a record: looped (the *)
(* values are arrays), keys, and values in the order of the keys (strings, *)
(* or equally long lists of strings when looped).                          *)
(***************************************************************************)
SafeChars ==
    {"a", "b", "c", "d", "e", "f", "g", "h", "i", "j", "k", "l", "m", "n", "o",
     "p", "q", "r", "s", "t", "u", "v", "w", "x", "y", "z",
     "0", "1", "2", "3", "4", "5", "6", "7", "8", "9",
     "_", "@", "%", "+", "=", ":", ",", ".", "/", "-"}

\* str.replace("'", "'\"'\"'")
RECURSIVE EscapeQuotes(_)
EscapeQuotes(str) ==
    IF Len(str) = 0 THEN ""
    ELSE (IF SubSeq(str, 1, 1) = "'" THEN "'\"'\"'" ELSE SubSeq(str, 1, 1))
         \o EscapeQuotes(SubSeq(str, 2, Len(str)))

\* shlex.quote
shlex_quote(str) ==
    IF Len(str) = 0 THEN "''"
    ELSE IF \A i \in 1..Len(str) : SubSeq(str, i, i) \in SafeChars THEN str
    ELSE "'" \o EscapeQuotes(str) \o "'"

\* " " * k
RECURSIVE Spaces(_)
Spaces(k) == IF k <= 0 THEN "" ELSE " " \o Spaces(k - 1)

Max(S) == CHOOSE x \in S : \A y \in S : y <= x

\* lines 148-154: the values as they are after the quoting
quoted(d, quote) ==
    IF ~quote THEN d
    ELSE IF d.looped
    THEN [d EXCEPT !.values =
            [j \in 1..Len(d.values) |->
                [i \in 1..Len(d.values[j]) |-> shlex_quote(d.values[j][i])]]]
    ELSE [d EXCEPT !.values = [j \in 1..Len(d.values) |-> shlex_quote(d.values[j])]]

\* lines 157-176
looped_lines(category, d) ==
    LET col_lens == [j \in 1..Len(d.values) |->
                        Max({0} \cup {Len(d.values[j][i]) : i \in 1..Len(d.values[j])}) + 1]
    IN <<"loop_">>
       \o [j \in 1..Len(d.keys) |-> "_" \o category \o "." \o d.keys[j]]
       \o [i \in 1..Len(d.values[1]) |->
            Join([j \in 1..Len(d.values) |->
                    d.values[j][i] \o Spaces(col_lens[j] - Len(d.values[j][i]))])]

\* lines 182-190
single_lines(category, d) ==
    LET req_len == Max({0} \cup {Len(d.keys[j]) : j \in 1..Len(d.keys)}) + 3
    IN [j \in 1..Len(d.keys) |->
            "_" \o category \o "." \o d.keys[j]
                \o Spaces(req_len - Len(d.keys[j])) \o d.values[j]]

\* lines 156-193: the rendered category, closed by a comment line
render(category, d) ==
    (IF d.looped THEN looped_lines(category, d) ELSE single_lines(category, d))
        \o <<"#">>

\* a slice bound beyond the end of a list counts as its end
Clamp(i, n) == IF i > n THEN n ELSE i

\* lst[at:at] = new
Insert(lst, at, new) ==
    SubSeq(lst, 1, Clamp(at, Len(lst))) \o new
        \o SubSeq(lst, Clamp(at, Len(lst)) + 1, Len(lst))

\* del lst[lo:hi]
Delete(lst, lo, hi) ==
    SubSeq(lst, 1, Clamp(lo, Len(lst)))
        \o SubSeq(lst, Clamp(hi, Len(lst)) + 1, Len(lst))

\* lines 246-251: the entries that start after category_start move
shift(cats, category_start, len_diff) ==
    [k \in 1..Len(cats) |->
        IF cats[k].start > category_start
        THEN [cats[k] EXCEPT !.start = @ + len_diff, !.stop = @ + len_diff]
        ELSE cats[k]]

\* lines 195-213: the category exists in the data block
replace_category(file, cats, k, new_lines, is_looped) ==
    [case |-> "replace",
     lines |-> Insert(Delete(file, cats[k].start, cats[k].stop),
                      cats[k].start, new_lines),
     categories |->
        shift([cats EXCEPT ![k] = [@ EXCEPT !.stop = cats[k].start + Len(new_lines),
                                            !.multiline = FALSE,
                                            !.loop = is_looped]],
              cats[k].start,
              Len(new_lines) - (cats[k].stop - cats[k].start))]

\* lines 218-222 and 236-239: the greatest stop among the entries kept
last_stop_of(cats, keep(_)) ==
    Max({0} \cup {cats[k].stop : k \in {j \in 1..Len(cats) : keep(j)}})

\* lines 214-228: the data block exists but not the category
append_to_block(file, cats, block, category, last_stop, new_lines, is_looped) ==
    [case |-> "append",
     lines |-> Insert(file, last_stop, new_lines),
     categories |->
        shift(_add_category(cats, block, <<category>>, last_stop,
                            last_stop + Len(new_lines), is_looped, FALSE),
              last_stop, Len(new_lines))]

\* lines 229-245: the data block does not exist
append_block(file, cats, block, category, last_stop, new_lines, is_looped) ==
    [case |-> "new_block",
     lines |-> Insert(file, last_stop, new_lines),
     categories |->
        shift(_add_category(cats, block, <<category>>, last_stop + 2,
                            last_stop + Len(new_lines), is_looped, FALSE),
              last_stop + 2, Len(new_lines) - 2)]

\* lines 195-251
place(file, cats, block, category, new_lines, is_looped) ==
    IF HasKey(cats, block, category)
    THEN replace_category(file, cats, KeyIndex(cats, block, category),
                          new_lines, is_looped)
    ELSE IF ElementOfSeq(get_block_names(cats), block)
    THEN append_to_block(file, cats, block, category,
                         last_stop_of(cats, LAMBDA j : cats[j].block = block),
                         new_lines, is_looped)
    ELSE append_block(file, cats, block, category,
                      last_stop_of(cats, LAMBDA j : TRUE),
                      <<"data_" \o block, "#">> \o new_lines, is_looped)

\* block is <<>> for None, which names the first block of the index
set_category(file, cats, category, category_dict, block, quote) ==
    place(file, cats,
          IF block = <<>> THEN get_block_names(cats)[1] ELSE block[1],
          category,
          render(category, quoted(category_dict, quote)),
          category_dict.looped)

(***************************************************************************)
(* The use of a PDBxFile: on a fresh object read and set_category are      *)
(* called, in any order, MaxCalls times at most.  history holds the last   *)
(* call: which it was, the lines and the index before it and, for          *)
(* set_category, its arguments and the placement it took; n counts the     *)
(* calls.                                                                  *)
(***************************************************************************)
DocOneBlock ==
    <<"data_A", "#", "_e.id 1", "#", "loop_", "_a.x", "_a.y", "1 2", "3 4", "#",
      "_c.k v", "#">>

DocTwoBlocks ==
    <<"data_A", "_e.id 1", "_f.k v", "#", "data_B", "_e.id 2", "#", "_g.k w", "#">>

DocSmall == <<"data_A", "_e.id 1", "#">>

DocOpenEnd == <<"data_A", "_e.id 1", "_f.k v", "data_B", "#">>

DocRepeated ==
    <<"data_B", "_e.id 1", "_f.k", ";two words", ";", "_e.z 2", "#">>

\* a loop whose second row opens with a quoted value that starts with "_"
DocQuoted ==
    <<"data_Q", "loop_", "_e.x", "_e.y", "1 '_b.c'", "'_b.c' 2", "#">>

Documents ==
    {DocOneBlock, DocTwoBlocks, DocSmall, DocOpenEnd, DocRepeated, DocQuoted}

CategoryNames == {"e", "n"}

BlockArguments == {<<>>, <<"A">>, <<"B">>, <<"N">>}

CategoryDicts ==
    {[looped |-> FALSE, keys |-> <<"id">>, values |-> <<"1">>],
     [looped |-> FALSE, keys |-> <<"id", "name">>, values |-> <<"7", "a b">>],
     [looped |-> TRUE, keys |-> <<"x", "y">>,
      values |-> <<<<"1", "3", "5">>, <<"2", "it's", "6">>>>],
     [looped |-> TRUE, keys |-> <<"x">>, values |-> <<<<"_b", "2">>>>]}

Made == IF history = <<>> THEN 0 ELSE history[1].n

\* read was called on an object whose index held entries already
Reread == history # <<>> /\ history[1].reread

InitFile ==
    /\ atoms = <<>>
    /\ calls = <<>>
    /\ probe = NoProbe
    /\ verdict = <<>>
    /\ lines = NoFile
    /\ categories = NoFile
    /\ history = <<>>

\* read keeps the entries that self._categories holds already
Read ==
    /\ Made < MaxCalls
    /\ \E file \in Documents :
        /\ lines' = file
        /\ categories' = read(categories, file)
        /\ history' = <<[op |-> "read", n |-> Made + 1,
                         reread |-> (Reread \/ categories # <<>>),
                         before_lines |-> lines,
                         before_categories |-> categories]>>
    /\ UNCHANGED <<atoms, calls, probe, verdict>>

\* mapping is category_dict as the caller passed it, mapping_after the same
\* object once the loop of lines 148-154 has assigned to it
Written(category, block, d, quote, before_lines, before_categories, out) ==
    /\ lines' = out.lines
    /\ categories' = out.categories
    /\ history' = <<[op |-> "set_category", n |-> Made + 1, reread |-> Reread,
                     case |-> out.case,
                     category |-> category, block |-> block,
                     mapping |-> d, quote |-> quote,
                     mapping_after |-> quoted(d, quote),
                     before_lines |-> before_lines,
                     before_categories |-> before_categories]>>

\* block None on an empty index raises IndexError at line 141: nothing changes
SetCategory ==
    /\ Made < MaxCalls
    /\ \E category \in CategoryNames, d \in CategoryDicts,
          block \in BlockArguments, quote \in BOOLEAN :
        /\ block = <<>> => categories # <<>>
        /\ Written(category,
                   IF block = <<>> THEN get_block_names(categories)[1] ELSE block[1],
                   d, quote, lines, categories,
                   set_category(lines, categories, category, d, block, quote))
    /\ UNCHANGED <<atoms, calls, probe, verdict>>

\* the mapping get_category returns for an indexed category is handed back
\* to set_category (quote is left at its default); a get_category that raises,
\* or an empty mapping (IndexError at line 143), changes nothing
WriteBack ==
    /\ Made < MaxCalls
    /\ \E k \in 1..Len(categories) :
        /\ materialize(lines, categories[k]).error = ""
        /\ materialize(lines, categories[k]).dict.keys # <<>>
        /\ lines' = set_category(lines, categories, categories[k].category,
                                 materialize(lines, categories[k]).dict,
                                 <<categories[k].block>>, TRUE).lines
        /\ categories' = set_category(lines, categories, categories[k].category,
                                      materialize(lines, categories[k]).dict,
                                      <<categories[k].block>>, TRUE).categories
        /\ history' = <<[op |-> "write_back", n |-> Made + 1, reread |-> Reread,
                         category |-> categories[k].category,
                         block |-> categories[k].block,
                         mapping |-> materialize(lines, categories[k]).dict,
                         before_lines |-> lines,
                         before_categories |-> categories]>>
    /\ UNCHANGED <<atoms, calls, probe, verdict>>

\* get_category reads self._lines and self._categories and assigns neither
GetCategory ==
    /\ Made < MaxCalls
    /\ \E category \in CategoryNames, block \in BlockArguments :
        history' = <<[op |-> "get_category", n |-> Made + 1, reread |-> Reread,
                      category |-> category, block |-> block,
                      error |-> get_category(lines, categories, category, block).error,
                      before_lines |-> lines,
                      before_categories |-> categories]>>
    /\ UNCHANGED <<lines, categories>>
    /\ UNCHANGED <<atoms, calls, probe, verdict>>

NextFile == Read \/ SetCategory \/ WriteBack \/ GetCategory

SpecFile == InitFile /\ [][NextFile]_vars

(***************************************************************************)
(* get_category on a looped category: a document with one loop of K key    *)
(* lines whose K * R value tokens are spread over the value lines by a      *)
(* layout, the number of tokens of each value line in turn.                 *)
(***************************************************************************)
MaxKeys == 2
MaxRows == 3

KeyNames == <<"k", "m", "p">>

TokenNames == <<"a", "b", "c", "d", "e", "f", "g", "h", "i", "j", "l", "n">>

\* the sequences of positive line lengths that add up to n
RECURSIVE Layouts(_)
Layouts(n) ==
    IF n = 0 THEN {<<>>}
    ELSE UNION {{<<first>> \o rest : rest \in Layouts(n - first)} : first \in 1..n}

\* " ".join(tokens)
RECURSIVE SpacedJoin(_)
SpacedJoin(tokens) ==
    IF Len(tokens) = 1 THEN tokens[1]
    ELSE tokens[1] \o " " \o SpacedJoin(Tail(tokens))

RECURSIVE ValueLines(_, _)
ValueLines(tokens, layout) ==
    IF layout = <<>> THEN <<>>
    ELSE <<SpacedJoin(SubSeq(tokens, 1, Head(layout)))>>
            \o ValueLines(SubSeq(tokens, Head(layout) + 1, Len(tokens)), Tail(layout))

LoopDocument(K, R, layout) ==
    <<"data_L", "loop_">> \o [j \in 1..K |-> "_c." \o KeyNames[j]]
        \o ValueLines(SubSeq(TokenNames, 1, K * R), layout) \o <<"#">>

LoopInputs ==
    UNION {{[K |-> K, R |-> R, layout |-> layout] : layout \in Layouts(K * R)} :
            K \in 1..MaxKeys, R \in 1..MaxRows}

InitLoop ==
    /\ probe \in LoopInputs
    /\ verdict = <<>>
    /\ atoms = <<>>
    /\ calls = <<>>
    /\ lines = NoFile
    /\ categories = NoFile
    /\ history = <<>>

ReadLoop ==
    /\ lines = NoFile
    /\ lines' = LoopDocument(probe.K, probe.R, probe.layout)
    /\ categories' = read(categories, LoopDocument(probe.K, probe.R, probe.layout))
    /\ UNCHANGED <<atoms, calls, probe, verdict, history>>

GetLoop ==
    /\ lines # NoFile
    /\ verdict = <<>>
    /\ verdict' = <<get_category(lines, categories, "c", <<>>)>>
    /\ UNCHANGED <<atoms, calls, probe, lines, categories, history>>

NextLoop == ReadLoop \/ GetLoop

SpecLoop == InitLoop /\ [][NextLoop]_vars

(***************************************************************************)
(* get_category on a category with multiline values: a document with one   *)
(* category "c" whose values are written, one after the other, each in a    *)
(* form: "plain" on a line (single-valued: on the key line), "text" as a    *)
(* semicolon block of one text line and, in single-valued categories only,  *)
(* "long" as a semicolon block of two text lines and "quoted" quoted on the *)
(* line after the key.                                                      *)
(***************************************************************************)
SingleForms == {"plain", "text", "long", "quoted"}

LoopForms == {"plain", "text"}

\* the lines that hold value number n in the given form
ItemLines(n, form) ==
    CASE form = "plain" -> <<TokenNames[n]>>
      [] form = "text" -> <<";" \o TokenNames[n] \o " x", ";">>
      [] form = "long" -> <<";" \o TokenNames[n], "y", ";">>
      [] OTHER -> <<"'" \o TokenNames[n] \o " x'">>

MultilineDocument(p) ==
    IF p.looped
    THEN <<"data_M", "loop_">> \o [j \in 1..p.K |-> "_c." \o KeyNames[j]]
            \o Flatten([n \in 1..Len(p.forms) |-> ItemLines(n, p.forms[n])])
            \o <<"#">>
    ELSE <<"data_M">>
            \o Flatten([n \in 1..Len(p.forms) |->
                    IF p.forms[n] = "plain"
                    THEN <<"_c." \o KeyNames[n] \o " " \o TokenNames[n]>>
                    ELSE <<"_c." \o KeyNames[n]>> \o ItemLines(n, p.forms[n])])
            \o <<"#">>

MultilineInputs ==
    UNION {{[looped |-> TRUE, K |-> K, forms |-> f] : f \in [1..(K * R) -> LoopForms]} :
            K \in 1..MaxKeys, R \in 1..(MaxRows - 1)}
    \cup UNION {{[looped |-> FALSE, K |-> K, forms |-> f] : f \in [1..K -> SingleForms]} :
                 K \in 1..MaxKeys}

InitMultiline ==
    /\ probe \in MultilineInputs
    /\ verdict = <<>>
    /\ atoms = <<>>
    /\ calls = <<>>
    /\ lines = NoFile
    /\ categories = NoFile
    /\ history = <<>>

ReadMultiline ==
    /\ lines = NoFile
    /\ lines' = MultilineDocument(probe)
    /\ categories' = read(categories, MultilineDocument(probe))
    /\ UNCHANGED <<atoms, calls, probe, verdict, history>>

NextMultiline == ReadMultiline \/ GetLoop

SpecMultiline == InitMultiline /\ [][NextMultiline]_vars

(***************************************************************************)
(* Properties of hbond.                                                    *)
(***************************************************************************)
Atoms == DOMAIN atoms.element
Models == DOMAIN atoms.coord
Returned(c) == c.out.error = ""
RowSet(rows) == {rows[k] : k \in 1..Len(rows)}
MaskOfSelection(selection) ==
    IF selection = <<>> THEN [i \in Atoms |-> TRUE] ELSE selection[1]
CriterionHolds(m, row) ==
    _is_hbond(atoms.coord[m][row[1]], atoms.coord[m][row[2]], atoms.coord[m][row[3]])

\* the triplets C1 describes for the selections of call c
BondsBetween(c) ==
    LET S1 == MaskOfSelection(c.selection1)
        S2 == MaskOfSelection(c.selection2)
    IN {row \in Atoms \X Atoms \X Atoms :
          /\ \/ S1[row[1]] /\ S2[row[3]]
             \/ S2[row[1]] /\ S1[row[3]]
          /\ atoms.element[row[1]] \in donor_elements
          /\ atoms.element[row[3]] \in acceptor_elements
          /\ ElementOfSeq(donor_h_indices(atoms, row[1]), row[2])
          /\ row[1] # row[3]
          /\ \E m \in Models : CriterionHolds(m, row)}

C2_MaskMatchesTriplets ==
    \A i \in 1..Len(calls) :
        (Returned(calls[i]) /\ atoms.stack) =>
            \A m \in Models :
                /\ Len(calls[i].out.mask[1][m]) = Len(calls[i].out.triplets)
                /\ \A t \in 1..Len(calls[i].out.triplets) :
                       calls[i].out.mask[1][m][t]
                           = CriterionHolds(m, calls[i].out.triplets[t])

\* C3: every returned triplet has a true entry in its own mask column.
C3_NoAllFalseColumn ==
    \A i \in 1..Len(calls) :
        (Returned(calls[i]) /\ atoms.stack) =>
            \A t \in 1..Len(calls[i].out.triplets) :
                \E m \in Models : calls[i].out.mask[1][m][t]

\* C4: every returned row has exactly 3 entries and its donor index
\* differs from its acceptor index.
C4_ThreeColumnsNoSelfPair ==
    \A i \in 1..Len(calls) :
        \A t \in 1..Len(calls[i].out.triplets) :
            /\ Len(calls[i].out.triplets[t]) = 3
            /\ calls[i].out.triplets[t][1] # calls[i].out.triplets[t][3]

\* hbond returned triplets although an atom with a hydrogen was searched
\* both as donor and as acceptor
C4_Witness ==
    \E i \in 1..Len(calls) :
        /\ calls[i].selection1_type = "both"
        /\ Len(calls[i].out.triplets) > 0
        /\ \E d \in Atoms :
              /\ MaskOfSelection(calls[i].selection1)[d]
              /\ MaskOfSelection(calls[i].selection2)[d]
              /\ atoms.element[d] \in donor_elements \cap acceptor_elements
              /\ Len(donor_h_indices(atoms, d)) > 0

\* C5: the returned triplets are in strictly ascending lexicographic order.
C5_StrictlyAscending ==
    \A i \in 1..Len(calls) :
        \A t \in 1..(Len(calls[i].out.triplets) - 1) :
            RowLess(calls[i].out.triplets[t], calls[i].out.triplets[t + 1])

\* two searches ran, the first found a triplet that sorts after one of the
\* second, and one triplet was found by both
C5_Witness ==
    \E i \in 1..Len(calls) :
        /\ Returned(calls[i])
        /\ Len(calls[i].out.passes) = 2
        /\ \E r \in RowSet(calls[i].out.passes[1].triplets),
              q \in RowSet(calls[i].out.passes[2].triplets) : RowLess(q, r)
        /\ RowSet(calls[i].out.passes[1].triplets)
               \cap RowSet(calls[i].out.passes[2].triplets) # {}

Exchanged ==
    /\ Len(calls) = 2
    /\ calls[1].selection1_type = "donor"
    /\ calls[2].selection1_type = "acceptor"
    /\ calls[2].selection1 = calls[1].selection2
    /\ calls[2].selection2 = calls[1].selection1

\* C6: hbond(A, B, 'donor') and hbond(B, A, 'acceptor') end alike and
\* return the same set of triplets.
C6_RoleSymmetry ==
    Exchanged =>
        /\ calls[1].out.error = calls[2].out.error
        /\ RowSet(calls[1].out.triplets) = RowSet(calls[2].out.triplets)

C6_Witness ==
    /\ Exchanged
    /\ Returned(calls[2])
    /\ Len(calls[2].out.triplets) >= 2

OtherBranch ==
    /\ Len(calls) = 2
    /\ calls[2].selection1_type = calls[1].selection1_type
    /\ calls[2].selection1 = calls[1].selection1
    /\ calls[2].selection2 = calls[1].selection2
    /\ calls[2].vectorized # calls[1].vectorized

\* C7: with vectorized = True and vectorized = False hbond returns the same
\* triplets in the same order and the same mask.
C7_BranchesAgree ==
    OtherBranch =>
        /\ calls[1].out.error = calls[2].out.error
        /\ calls[1].out.triplets = calls[2].out.triplets
        /\ calls[1].out.mask = calls[2].out.mask

\* C9: when no hydrogen bond is found hbond returns normally, with no
\* triplet and, for a stack, a mask of M rows and 0 columns.
C9_EmptyResult ==
    \A i \in 1..Len(calls) :
        (/\ calls[i].selection1_type \in {"donor", "acceptor", "both"}
         /\ Len(calls[i].out.triplets) = 0)
            => /\ Returned(calls[i])
               /\ atoms.stack =>
                    \A m \in Models : Len(calls[i].out.mask[1][m]) = 0

(***************************************************************************)
(* Properties of _is_hbond.                                                *)
(***************************************************************************)
ArmD == Sub(probe.donor, probe.donor_h)
ArmA == Sub(probe.acceptor, probe.donor_h)

\* the angle at the hydrogen is more than 120 degrees: its cosine is less
\* than -1/2
WiderThan120 ==
    Dot(ArmD, ArmA) < 0
        /\ 4 * Dot(ArmD, ArmA) * Dot(ArmD, ArmA) > Dot(ArmD, ArmD) * Dot(ArmA, ArmA)

Exactly120 ==
    Dot(ArmD, ArmA) < 0
        /\ 4 * Dot(ArmD, ArmA) * Dot(ArmD, ArmA) = Dot(ArmD, ArmD) * Dot(ArmA, ArmA)

\* C8: the criterion is met exactly when the D-H-A angle is strictly
\* greater than cutoff_angle (120 degrees) and the H-A distance is at most
\* cutoff_dist (2.5 Angstrom).
C8_Criterion ==
    verdict # <<>> =>
        verdict[1] = (WiderThan120 /\ Dot(ArmA, ArmA) <= 625)

\* an angle of exactly 120 degrees at an accepted distance: rejected
C8_Witness ==
    /\ verdict = <<FALSE>>
    /\ Exactly120
    /\ Dot(ArmA, ArmA) <= 625

(***************************************************************************)
(* Properties of the category index of a PDBxFile.                         *)
(***************************************************************************)
Entries == 1..Len(categories)

RangesDisjoint(x, y) == x.stop <= y.start \/ y.stop <= x.start

WithinLines(x) == 0 <= x.start /\ x.start < x.stop /\ x.stop <= Len(lines)

\* the start of the entry of a key in an index
StartIn(cats, x) == cats[KeyIndex(cats, x.block, x.category)].start

KeptOrder(before) ==
    \A i \in 1..Len(before), j \in 1..Len(before) :
        before[i].start < before[j].start
            => StartIn(categories, before[i]) < StartIn(categories, before[j])

AfterSetCategory == history # <<>> /\ history[1].op = "set_category"

\* C10: after read and after any sequence of set_category calls, the ranges
\* of two distinct categories of the same data block do not overlap, every
\* range has 0 <= start < stop <= number of lines, and the categories that
\* were indexed before a call keep, after it, the order of their starts.
C10_IndexRanges ==
    /\ \A i \in Entries, j \in Entries :
        (i # j /\ categories[i].block = categories[j].block)
            => RangesDisjoint(categories[i], categories[j])
    /\ \A i \in Entries : WithinLines(categories[i])
    /\ AfterSetCategory => KeptOrder(history[1].before_categories)

\* the last call, a set_category, and what it wrote
Last == history[1]

WrittenEntry == categories[KeyIndex(categories, Last.block, Last.category)]

Others ==
    {k \in 1..Len(Last.before_categories) :
        ~(Last.before_categories[k].block = Last.block
          /\ Last.before_categories[k].category = Last.category)}

\* the entry that an entry of the index before the call has after it
Now(x) == categories[KeyIndex(categories, x.block, x.category)]

\* the range of the lines before the call that the call replaced, empty
\* (the point of insertion) when the category is new
TouchedStart ==
    IF Last.case = "replace"
    THEN StartIn(Last.before_categories, Last)
    ELSE IF Last.case = "append" THEN WrittenEntry.start
    ELSE WrittenEntry.start - 2

TouchedStop ==
    IF Last.case = "replace"
    THEN Last.before_categories[
            KeyIndex(Last.before_categories, Last.block, Last.category)].stop
    ELSE TouchedStart

\* lines added minus lines removed
NetChange == Len(lines) - Len(Last.before_lines)

\* C11: after set_category inserts or replaces a category, the start and
\* stop of every other category located after the inserted or replaced range
\* are both shifted by the net change in line count, and those of every
\* category located before that range are unchanged.
C11_ShiftFrame ==
    AfterSetCategory =>
        \A k \in Others :
            /\ Last.before_categories[k].start >= TouchedStop =>
                /\ Now(Last.before_categories[k]).start
                     = Last.before_categories[k].start + NetChange
                /\ Now(Last.before_categories[k]).stop
                     = Last.before_categories[k].stop + NetChange
            /\ Last.before_categories[k].stop <= TouchedStart =>
                /\ Now(Last.before_categories[k]).start
                     = Last.before_categories[k].start
                /\ Now(Last.before_categories[k]).stop
                     = Last.before_categories[k].stop

\* C12: set_category on one (block, category) changes for no other indexed
\* category what get_category returns: the lines of its range after the
\* call are the lines of its range before the call, and so is the mapping
\* made of them.
C12_OthersUnchanged ==
    AfterSetCategory =>
        \A k \in Others :
            /\ ListSlice(lines, Now(Last.before_categories[k]).start,
                         Now(Last.before_categories[k]).stop)
                 = ListSlice(Last.before_lines, Last.before_categories[k].start,
                             Last.before_categories[k].stop)
            /\ materialize(lines, Now(Last.before_categories[k]))
                 = materialize(Last.before_lines, Last.before_categories[k])

\* C13: a category's mapping written back with set_category and parsed again
\* from the resulting lines by a new object gives the same keys with the same
\* values in the same order
Reparsed == get_category(lines, read(NoFile, lines), Last.category, <<Last.block>>)

AfterWriteBack == history # <<>> /\ history[1].op = "write_back"

C13_RoundTrip ==
    AfterWriteBack =>
        /\ Reparsed.error = ""
        /\ Reparsed.dict.keys = Last.mapping.keys
        /\ Reparsed.dict.values = Last.mapping.values

\* C14: for a loop of K keys and K * R value tokens, however the tokens are
\* laid out over the value lines, get_category returns for every key a
\* sequence of exactly R values, the value of key j in row r being token
\* r * K + j (counted from 0)
LoopGot == probe # NoProbe /\ lines # NoFile /\ verdict # <<>>

C14_LoopRows ==
    LoopGot =>
        /\ verdict[1].error = ""
        /\ verdict[1].dict.keys = SubSeq(KeyNames, 1, probe.K)
        /\ \A j \in 1..probe.K :
            /\ Len(verdict[1].dict.values[j]) = probe.R
            /\ \A r \in 1..probe.R :
                verdict[1].dict.values[j][r] = TokenNames[(r - 1) * probe.K + j]


\* C15: hbond_frequency returns one entry per triplet, entry t being the
\* number of models whose column t is true divided by the number of models;
\* it lies between 0 and 1, is 1 for a column true in every model and 0 for a
\* column true in none; the mask passed is not modified
FrequencyTaken == verdict # <<>>

ModelsWith(mask, t) == {m \in 1..Len(mask) : mask[m][t]}

C15_Frequency ==
    FrequencyTaken =>
        /\ probe = history[1]
        /\ Len(verdict[1]) = Len(history[1][1])
        /\ \A t \in 1..Len(history[1][1]) :
            /\ verdict[1][t].den = Len(history[1])
            /\ verdict[1][t].num = Cardinality(ModelsWith(history[1], t))
            /\ 0 <= verdict[1][t].num /\ verdict[1][t].num <= verdict[1][t].den
            /\ (\A m \in 1..Len(history[1]) : history[1][m][t])
                    => verdict[1][t].num = verdict[1][t].den
            /\ (\A m \in 1..Len(history[1]) : ~history[1][m][t])
                    => verdict[1][t].num = 0

\* two models, three triplets: one present in both, one in none, one in one
C15_Witness ==
    /\ FrequencyTaken
    /\ history[1] = <<<<TRUE, FALSE, TRUE>>, <<TRUE, FALSE, FALSE>>>>
    /\ verdict[1] = <<[num |-> 2, den |-> 2], [num |-> 0, den |-> 2],
                      [num |-> 1, den |-> 2]>>

\* C16: a call of hbond whose selection1_type is none of 'donor', 'acceptor'
\* and 'both' ends in ValueError with no search run and nothing returned, and
\* leaves the ensemble as it was
KnownTypes == {"donor", "acceptor", "both"}

UnknownType(c) == c.selection1_type \notin KnownTypes

C16_UnknownTypeFails ==
    [][\A k \in 1..Len(calls') :
          (k > Len(calls) /\ UnknownType(calls'[k])) =>
              /\ calls'[k].out.error = "ValueError"
              /\ calls'[k].out.passes = <<>>
              /\ calls'[k].out.triplets = <<>>
              /\ calls'[k].out.mask = <<>>
              /\ atoms' = atoms]_vars

C16_Witness ==
    /\ Len(calls) = 1
    /\ UnknownType(calls[1])
    /\ calls[1].out.error = "ValueError"
    /\ calls[1].selection1 # <<>>
    /\ array_length(atoms) > 0

\* C17: get_category for a category name or a block name that the index does
\* not hold fails with KeyError, and leaves the lines and the index as they
\* were
AfterGetCategory == history # <<>> /\ history[1].op = "get_category"

\* the block looked up: the one named, or the first block of the index
BlockAsked ==
    IF Last.block # <<>> THEN Last.block
    ELSE IF Last.before_categories = <<>> THEN <<>>
    ELSE <<get_block_names(Last.before_categories)[1]>>

NotIndexed ==
    \/ BlockAsked = <<>>
    \/ ~HasKey(Last.before_categories, BlockAsked[1], Last.category)

C17_KeyError ==
    (AfterGetCategory /\ NotIndexed) =>
        /\ Last.error = "KeyError"
        /\ lines = Last.before_lines
        /\ categories = Last.before_categories

\* C18: after read, every category of every data block of the document is
\* indexed under (block, category) with start = its loop marker or first key
\* line, stop = the line where the next category begins (the number of lines
\* for the final one) and loop set iff a loop marker introduces it; the same
\* name in two blocks gives two entries.  Lines are counted from 0; a category
\* that a block holds twice is looked up at its last occurrence.
AfterRead == history # <<>> /\ history[1].op = "read"

IsHeader(i) == _data_block_name(lines[i + 1]) # <<>>
IsMarker(i) == _is_loop_start(lines[i + 1])
IsKeyLine(i) == _get_category_name(lines[i + 1]) # <<>>

\* the nearest header, loop marker or key line before line i; -1 if none
Previous(i) ==
    Max({-1} \cup {j \in 0..(i - 1) : IsHeader(j) \/ IsMarker(j) \/ IsKeyLine(j)})

\* the lines where a category begins
Begins(i) ==
    \/ IsMarker(i)
    \/ /\ IsKeyLine(i)
       /\ Previous(i) >= 0
       /\ ~IsMarker(Previous(i))
       /\ IsHeader(Previous(i))
            \/ _get_category_name(lines[Previous(i) + 1])
                    # _get_category_name(lines[i + 1])

BlockOf(i) ==
    _data_block_name(lines[Max({j \in 0..i : IsHeader(j)}) + 1])[1]

NameOf(i) ==
    IF IsMarker(i) THEN _get_category_name(lines[i + 2])[1]
    ELSE _get_category_name(lines[i + 1])[1]

NextBegin(i) ==
    IF \E j \in (i + 1)..(Len(lines) - 1) : Begins(j)
    THEN CHOOSE j \in (i + 1)..(Len(lines) - 1) :
            Begins(j) /\ \A m \in (i + 1)..(j - 1) : ~Begins(m)
    ELSE Len(lines)

LastOccurrence(i) ==
    \A j \in (i + 1)..(Len(lines) - 1) :
        Begins(j) => (BlockOf(j) # BlockOf(i) \/ NameOf(j) # NameOf(i))

C18_EveryCategoryIndexed ==
    AfterRead =>
        \A i \in 0..(Len(lines) - 1) :
            (Begins(i) /\ LastOccurrence(i)) =>
                /\ HasKey(categories, BlockOf(i), NameOf(i))
                /\ categories[KeyIndex(categories, BlockOf(i), NameOf(i))].start = i
                /\ categories[KeyIndex(categories, BlockOf(i), NameOf(i))].stop
                        = NextBegin(i)
                /\ categories[KeyIndex(categories, BlockOf(i), NameOf(i))].loop
                        = IsMarker(i)

\* C19: set_category places the rendered lines by one of three rules: an
\* indexed (block, category) is replaced at its start; else, the block being
\* indexed, the lines go in at the stop of the block's last category, after
\* every line of that block; else a header of the new block and the category
\* are appended after the last line of the document.  The other lines keep
\* content and order, and the lines in the range of the written entry are the
\* rendered category, closed by the comment line.
Before == Last.before_lines

\* the lines (from 0) of a document that lie in block b: from a header of b
\* up to the next header
BlockLines(file, b) ==
    {i \in 0..(Len(file) - 1) :
        \E j \in 0..i :
            /\ _data_block_name(file[j + 1]) = <<b>>
            /\ \A m \in (j + 1)..i : _data_block_name(file[m + 1]) = <<>>}

BlockStops(b) ==
    {Last.before_categories[k].stop :
        k \in {j \in 1..Len(Last.before_categories) :
                    Last.before_categories[j].block = b}}

OldEntry == Last.before_categories[KeyIndex(Last.before_categories, Last.block,
                                            Last.category)]

PlacedAs(R) ==
    /\ ListSlice(lines, WrittenEntry.start, WrittenEntry.stop) = R
    /\ R[Len(R)] = "#"
    /\ IF HasKey(Last.before_categories, Last.block, Last.category)
       THEN /\ WrittenEntry.start = OldEntry.start
            /\ lines = ListSlice(Before, 0, OldEntry.start) \o R
                         \o ListSlice(Before, OldEntry.stop, Len(Before))
       ELSE IF BlockStops(Last.block) # {}
       THEN /\ WrittenEntry.start = Max(BlockStops(Last.block))
            /\ \A i \in BlockLines(Before, Last.block) : i < WrittenEntry.start
            /\ lines = ListSlice(Before, 0, WrittenEntry.start) \o R
                         \o ListSlice(Before, WrittenEntry.start, Len(Before))
       ELSE lines = Before \o <<"data_" \o Last.block, "#">> \o R

C19_Placement ==
    AfterSetCategory =>
        \E d \in CategoryDicts, quote \in BOOLEAN :
            PlacedAs(render(Last.category, quoted(d, quote)))

\* C20: the hydrogen of every returned triplet has element H and the residue
\* id of the donor, and lies within 1.5 Angstrom of the donor in the first
\* model: a hydrogen farther away, at 1.8 say, is never associated, and a
\* donor without such a hydrogen gives no triplet
BondedHydrogen(d, h) ==
    /\ atoms.element[h] = "H"
    /\ atoms.res_id[h] = atoms.res_id[d]
    /\ DistLeq(distance(atoms.coord[0][d], atoms.coord[0][h]), cutoff)

C20_HydrogenOfDonor ==
    \A i \in 1..Len(calls) :
        \A t \in 1..Len(calls[i].out.triplets) :
            BondedHydrogen(calls[i].out.triplets[t][1], calls[i].out.triplets[t][2])

\* C21: a triplet that both directional searches of a call produce has the
\* same mask column in both, model by model, and the column hbond returns
\* for it is that column, whichever duplicate np.unique keeps
BothRuns(c) == Returned(c) /\ Len(c.out.passes) = 2

SameColumn(c, t1, t2) ==
    \A m \in DOMAIN c.out.passes[1].mask :
        c.out.passes[1].mask[m][t1] = c.out.passes[2].mask[m][t2]

ReturnedColumn(c, t1) ==
    c.out.mask # <<>> =>
        \A k \in 1..Len(c.out.triplets) :
            c.out.triplets[k] = c.out.passes[1].triplets[t1] =>
                \A m \in DOMAIN c.out.passes[1].mask :
                    c.out.mask[1][m][k] = c.out.passes[1].mask[m][t1]

C21_DuplicateColumnsAgree ==
    \A i \in 1..Len(calls) :
        BothRuns(calls[i]) =>
            \A t1 \in 1..Len(calls[i].out.passes[1].triplets),
               t2 \in 1..Len(calls[i].out.passes[2].triplets) :
                calls[i].out.passes[1].triplets[t1] = calls[i].out.passes[2].triplets[t2]
                    => SameColumn(calls[i], t1, t2) /\ ReturnedColumn(calls[i], t1)

\* both searches found a triplet that is a bond in one model and not in the
\* other
C21_Witness ==
    \E i \in 1..Len(calls) :
        /\ BothRuns(calls[i])
        /\ calls[i].out.mask # <<>>
        /\ \E t1 \in 1..Len(calls[i].out.passes[1].triplets),
              t2 \in 1..Len(calls[i].out.passes[2].triplets) :
            /\ calls[i].out.passes[1].triplets[t1] = calls[i].out.passes[2].triplets[t2]
            /\ \E m, n \in DOMAIN calls[i].out.passes[1].mask :
                calls[i].out.passes[1].mask[m][t1] /\ ~calls[i].out.passes[1].mask[n][t1]

\* C22: for a category flagged multiline, every semicolon block, and in a
\* single-valued category every quoted value on the line after its key, is
\* one value of the mapping, at the key or the row and column where it stands
\* in the text, also when a semicolon block is the first value of a loop; the
\* keys are those of the key lines
MultilineGot ==
    /\ probe # NoProbe /\ verdict # <<>>
    /\ lines = MultilineDocument(probe)
    /\ categories[1].multiline

\* the value that item n stands for
ItemValue(n, form) ==
    CASE form = "plain" -> TokenNames[n]
      [] form = "long" -> TokenNames[n] \o "y"
      [] OTHER -> TokenNames[n] \o " x"

RowsOf(p) == Len(p.forms) \div p.K

C22_MultilineValues ==
    MultilineGot =>
        /\ verdict[1].error = ""
        /\ verdict[1].dict.keys = SubSeq(KeyNames, 1, probe.K)
        /\ \A j \in 1..probe.K :
            IF probe.looped
            THEN verdict[1].dict.values[j]
                    = [r \in 1..RowsOf(probe) |->
                        ItemValue((r - 1) * probe.K + j,
                                  probe.forms[(r - 1) * probe.K + j])]
            ELSE verdict[1].dict.values[j] = ItemValue(j, probe.forms[j])

\* C23: after set_category the stored index holds the keys, and for each key
\* the start, stop, loop flag and multiline flag, that read builds when it
\* parses the stored lines from scratch
EntrySet(cats) == {cats[k] : k \in 1..Len(cats)}

C23_IndexAsParsed ==
    AfterSetCategory => EntrySet(categories) = EntrySet(read(NoFile, lines))

\* C24: right after set_category(category, mapping, block) with quote=True,
\* without a re-parse, get_category(category, block) returns the keys and the
\* values (for a looped mapping the rows in their order) that the mapping
\* held when it was passed, whether the category was replaced, appended to
\* its block or created together with a new block
ReadBack == get_category(lines, categories, Last.category, <<Last.block>>)

C24_ReadYourWrite ==
    (AfterSetCategory /\ Last.quote) =>
        /\ ReadBack.error = ""
        /\ ReadBack.dict.keys = Last.mapping.keys
        /\ ReadBack.dict.values = Last.mapping.values

====
